---------------------------- MODULE Spec2Model ----------------------------
(***************************************************************************)
(* LaraShell AI autocomplete engine (larashell/src/ai/autocomplete.rs):    *)
(* the sliding-window rate limiter, the bounded TTL cache, the fallback    *)
(* heuristic, the response parser and the debounced / immediate            *)
(* get_suggestions paths under concurrent callers.                         *)
(*                                                                         *)
(* Strings are sequences of one-character strings, so that trimming,       *)
(* prefix tests and lower-casing are computed and not assumed.             *)
(* Time (Instant) is a natural number of ticks; durations are tick counts. *)
(* One tick stands for 20 seconds, so the limiter's 60 s window is 3.      *)
(***************************************************************************)
EXTENDS Naturals, Integers, Sequences, FiniteSets, TLC

(***************************************************************************)
(* Bounds of the model.                                                    *)
(***************************************************************************)
MaxTime == 2
MaxCacheTime == 1
MaxLimiterTime == 4
MaxRequests == 1
MaxLimiterRequests == 3
MaxAllows == 7
MaxCap == 1
MaxTtl == 1
MaxDebounce == 1
NumCalls == 2
MaxOps == 5
MaxClears == 1
MaxEngineTime == 3

(* RateLimiter::new: window = Duration::from_secs(60), in 20 s ticks. *)
Window == 3

(* create_suggestion_channel: mpsc::channel(32), both channels. *)
ChannelCapacity == 32

(* fetch_suggestions: .take(5); get_fallback_suggestions: truncate(5). *)
MaxSuggestions == 5

(* add_to_cache: take(cache.len() / 4). *)
EvictDivisor == 4

(***************************************************************************)
(* String helpers (str::trim, str::starts_with, str::to_lowercase).        *)
(***************************************************************************)
Whitespace == {" ", "\t", "\n", "\r"}

Digits == {"0", "1", "2", "3", "4", "5", "6", "7", "8", "9"}

UpperCase == <<"A", "B", "C", "D", "E", "F", "G", "H", "I", "J", "K", "L", "M",
               "N", "O", "P", "Q", "R", "S", "T", "U", "V", "W", "X", "Y", "Z">>

LowerCase == <<"a", "b", "c", "d", "e", "f", "g", "h", "i", "j", "k", "l", "m",
               "n", "o", "p", "q", "r", "s", "t", "u", "v", "w", "x", "y", "z">>

LowerChar(c) ==
  IF \E i \in 1..Len(UpperCase) : UpperCase[i] = c
    THEN LowerCase[CHOOSE i \in 1..Len(UpperCase) : UpperCase[i] = c]
    ELSE c

ToLower(s) == [i \in 1..Len(s) |-> LowerChar(s[i])]

RECURSIVE TrimStartMatches(_, _)
TrimStartMatches(s, set) ==
  IF s # << >> /\ Head(s) \in set THEN TrimStartMatches(Tail(s), set) ELSE s

RECURSIVE TrimEndMatches(_, _)
TrimEndMatches(s, set) ==
  IF s # << >> /\ s[Len(s)] \in set
    THEN TrimEndMatches(SubSeq(s, 1, Len(s) - 1), set)
    ELSE s

(* Variant: the input is not trimmed before the emptiness test. *)
TrimNothing(s) == s

Trim(s) == TrimEndMatches(TrimStartMatches(s, Whitespace), Whitespace)

StartsWith(s, prefix) ==
  /\ Len(prefix) <= Len(s)
  /\ SubSeq(s, 1, Len(prefix)) = prefix

(* Variant: the list is not truncated. *)
TakeAll(s, n) == s

Take(s, n) == IF Len(s) <= n THEN s ELSE SubSeq(s, 1, n)

RECURSIVE Concat(_)
Concat(ss) == IF ss = << >> THEN << >> ELSE Head(ss) \o Concat(Tail(ss))

(***************************************************************************)
(* get_fallback_suggestions: the static pattern table and the              *)
(* first-character dispatch.                                               *)
(***************************************************************************)
patterns ==
  <<
     <<<<"g", "i", "t", " ">>,
        <<<<"g", "i", "t", " ", "s", "t", "a", "t", "u", "s">>,
          <<"g", "i", "t", " ", "a", "d", "d">>,
          <<"g", "i", "t", " ", "c", "o", "m", "m", "i", "t">>,
          <<"g", "i", "t", " ", "p", "u", "s", "h">>,
          <<"g", "i", "t", " ", "p", "u", "l", "l">>>>>>,
     <<<<"g", "i", "t", " ", "c">>,
        <<<<"g", "i", "t", " ", "c", "o", "m", "m", "i", "t", " ", "-", "m", " ", "\"">>,
          <<"g", "i", "t", " ", "c", "h", "e", "c", "k", "o", "u", "t">>,
          <<"g", "i", "t", " ", "c", "l", "o", "n", "e">>,
          <<"g", "i", "t", " ", "c", "h", "e", "r", "r", "y", "-", "p", "i", "c", "k">>>>>>,
     <<<<"g", "i", "t", " ", "p">>,
        <<<<"g", "i", "t", " ", "p", "u", "s", "h">>,
          <<"g", "i", "t", " ", "p", "u", "l", "l">>,
          <<"g", "i", "t", " ", "p", "u", "s", "h", " ", "o", "r", "i", "g", "i", "n">>>>>>,
     <<<<"g", "i", "t", " ", "s">>,
        <<<<"g", "i", "t", " ", "s", "t", "a", "t", "u", "s">>,
          <<"g", "i", "t", " ", "s", "t", "a", "s", "h">>,
          <<"g", "i", "t", " ", "s", "h", "o", "w">>>>>>,
     <<<<"n", "p", "m", " ">>,
        <<<<"n", "p", "m", " ", "i", "n", "s", "t", "a", "l", "l">>,
          <<"n", "p", "m", " ", "r", "u", "n">>,
          <<"n", "p", "m", " ", "s", "t", "a", "r", "t">>,
          <<"n", "p", "m", " ", "t", "e", "s", "t">>>>>>,
     <<<<"n", "p", "m", " ", "r">>,
        <<<<"n", "p", "m", " ", "r", "u", "n">>,
          <<"n", "p", "m", " ", "r", "u", "n", " ", "d", "e", "v">>,
          <<"n", "p", "m", " ", "r", "u", "n", " ", "b", "u", "i", "l", "d">>,
          <<"n", "p", "m", " ", "r", "u", "n", " ", "t", "e", "s", "t">>>>>>,
     <<<<"n", "p", "m", " ", "i">>,
        <<<<"n", "p", "m", " ", "i", "n", "s", "t", "a", "l", "l">>,
          <<"n", "p", "m", " ", "i", "n", "i", "t">>>>>>,
     <<<<"c", "a", "r", "g", "o", " ">>,
        <<<<"c", "a", "r", "g", "o", " ", "b", "u", "i", "l", "d">>,
          <<"c", "a", "r", "g", "o", " ", "r", "u", "n">>,
          <<"c", "a", "r", "g", "o", " ", "t", "e", "s", "t">>,
          <<"c", "a", "r", "g", "o", " ", "c", "h", "e", "c", "k">>>>>>,
     <<<<"c", "a", "r", "g", "o", " ", "b">>,
        <<<<"c", "a", "r", "g", "o", " ", "b", "u", "i", "l", "d">>,
          <<"c", "a", "r", "g", "o", " ", "b", "u", "i", "l", "d", " ", "-", "-", "r", "e", "l", "e", "a", "s", "e">>>>>>,
     <<<<"c", "a", "r", "g", "o", " ", "r">>,
        <<<<"c", "a", "r", "g", "o", " ", "r", "u", "n">>,
          <<"c", "a", "r", "g", "o", " ", "r", "u", "n", " ", "-", "-", "r", "e", "l", "e", "a", "s", "e">>>>>>,
     <<<<"c", "a", "r", "g", "o", " ", "t">>,
        <<<<"c", "a", "r", "g", "o", " ", "t", "e", "s", "t">>,
          <<"c", "a", "r", "g", "o", " ", "t", "e", "s", "t", " ", "-", "-">>,
          <<"c", "a", "r", "g", "o", " ", "t", "r", "e", "e">>>>>>,
     <<<<"d", "o", "c", "k", "e", "r", " ">>,
        <<<<"d", "o", "c", "k", "e", "r", " ", "p", "s">>,
          <<"d", "o", "c", "k", "e", "r", " ", "i", "m", "a", "g", "e", "s">>,
          <<"d", "o", "c", "k", "e", "r", " ", "r", "u", "n">>,
          <<"d", "o", "c", "k", "e", "r", " ", "b", "u", "i", "l", "d">>>>>>,
     <<<<"d", "o", "c", "k", "e", "r", " ", "p">>,
        <<<<"d", "o", "c", "k", "e", "r", " ", "p", "s">>,
          <<"d", "o", "c", "k", "e", "r", " ", "p", "u", "l", "l">>,
          <<"d", "o", "c", "k", "e", "r", " ", "p", "u", "s", "h">>>>>>,
     <<<<"d", "o", "c", "k", "e", "r", " ", "r">>,
        <<<<"d", "o", "c", "k", "e", "r", " ", "r", "u", "n">>,
          <<"d", "o", "c", "k", "e", "r", " ", "r", "m">>,
          <<"d", "o", "c", "k", "e", "r", " ", "r", "m", "i">>>>>>,
     <<<<"c", "d", " ">>,
        <<<<"c", "d", " ", ".", ".">>,
          <<"c", "d", " ", "~">>,
          <<"c", "d", " ", "-">>>>>>,
     <<<<"l", "s", " ">>,
        <<<<"l", "s", " ", "-", "l", "a">>,
          <<"l", "s", " ", "-", "l">>,
          <<"l", "s", " ", "-", "a">>>>>>,
     <<<<"m", "k", "d", "i", "r", " ">>,
        <<<<"m", "k", "d", "i", "r", " ", "-", "p">>>>>>,
     <<<<"r", "m", " ">>,
        <<<<"r", "m", " ", "-", "r", "f">>,
          <<"r", "m", " ", "-", "r">>>>>>,
     <<<<"c", "a", "t", " ">>,
        <<<<"c", "a", "t">>>>>>,
     <<<<"g", "r", "e", "p", " ">>,
        <<<<"g", "r", "e", "p", " ", "-", "r">>,
          <<"g", "r", "e", "p", " ", "-", "i">>,
          <<"g", "r", "e", "p", " ", "-", "r", "n">>>>>>,
     <<<<"f", "i", "n", "d", " ">>,
        <<<<"f", "i", "n", "d", " ", ".", " ", "-", "n", "a", "m", "e">>,
          <<"f", "i", "n", "d", " ", ".", " ", "-", "t", "y", "p", "e", " ", "f">>,
          <<"f", "i", "n", "d", " ", ".", " ", "-", "t", "y", "p", "e", " ", "d">>>>>>,
     <<<<"p", "s", " ">>,
        <<<<"p", "s", " ", "a", "u", "x">>,
          <<"p", "s", " ", "-", "e", "f">>>>>>,
     <<<<"k", "i", "l", "l", " ">>,
        <<<<"k", "i", "l", "l", " ", "-", "9">>>>>>,
     <<<<"c", "h", "m", "o", "d", " ">>,
        <<<<"c", "h", "m", "o", "d", " ", "+", "x">>,
          <<"c", "h", "m", "o", "d", " ", "7", "5", "5">>,
          <<"c", "h", "m", "o", "d", " ", "6", "4", "4">>>>>>,
     <<<<"s", "s", "h", " ">>,
        <<<<"s", "s", "h", " ", "-", "i">>>>>>,
     <<<<"s", "c", "p", " ">>,
        <<<<"s", "c", "p", " ", "-", "r">>>>>>,
     <<<<"c", "u", "r", "l", " ">>,
        <<<<"c", "u", "r", "l", " ", "-", "X", " ", "G", "E", "T">>,
          <<"c", "u", "r", "l", " ", "-", "X", " ", "P", "O", "S", "T">>,
          <<"c", "u", "r", "l", " ", "-", "H">>>>>>,
     <<<<"w", "g", "e", "t", " ">>,
        <<<<"w", "g", "e", "t", " ", "-", "O">>>>>>,
     <<<<"t", "a", "r", " ">>,
        <<<<"t", "a", "r", " ", "-", "x", "v", "f">>,
          <<"t", "a", "r", " ", "-", "c", "v", "f">>,
          <<"t", "a", "r", " ", "-", "x", "z", "f">>>>>>,
     <<<<"p", "y", "t", "h", "o", "n", " ">>,
        <<<<"p", "y", "t", "h", "o", "n", " ", "-", "m">>,
          <<"p", "y", "t", "h", "o", "n", " ", "-", "c">>>>>>,
     <<<<"p", "i", "p", " ">>,
        <<<<"p", "i", "p", " ", "i", "n", "s", "t", "a", "l", "l">>,
          <<"p", "i", "p", " ", "l", "i", "s", "t">>,
          <<"p", "i", "p", " ", "f", "r", "e", "e", "z", "e">>>>>>
  >>

FirstCharTable(c) ==
  CASE c = "g" -> <<<<"g", "i", "t">>, <<"g", "r", "e", "p">>, <<"g", "o">>>>
    [] c = "c" -> <<<<"c", "d">>, <<"c", "a", "t">>, <<"c", "a", "r", "g", "o">>, <<"c", "u", "r", "l">>, <<"c", "p">>>>
    [] c = "d" -> <<<<"d", "o", "c", "k", "e", "r">>, <<"d", "f">>, <<"d", "u">>, <<"d", "i", "f", "f">>>>
    [] c = "l" -> <<<<"l", "s">>, <<"l", "e", "s", "s">>, <<"l", "n">>>>
    [] c = "n" -> <<<<"n", "p", "m">>, <<"n", "o", "d", "e">>, <<"n", "a", "n", "o">>>>
    [] c = "p" -> <<<<"p", "s">>, <<"p", "w", "d">>, <<"p", "i", "p">>, <<"p", "y", "t", "h", "o", "n">>>>
    [] c = "r" -> <<<<"r", "m">>, <<"r", "s", "y", "n", "c">>>>
    [] c = "s" -> <<<<"s", "s", "h">>, <<"s", "u", "d", "o">>, <<"s", "c", "p">>>>
    [] c = "t" -> <<<<"t", "a", "r">>, <<"t", "o", "u", "c", "h">>, <<"t", "a", "i", "l">>>>
    [] c = "v" -> <<<<"v", "i", "m">>, <<"v", "i">>>>
    [] OTHER -> << >>

RowMatches(row, input_lower) ==
  StartsWith(input_lower, row[1]) \/ StartsWith(row[1], input_lower)

(* Variant: every completion of a matching row is pushed. *)
RowCompletionsUnfiltered(row, input_lower) ==
  IF RowMatches(row, input_lower) THEN row[2] ELSE << >>

RowCompletions(row, input_lower) ==
  LET Keep(c) == StartsWith(c, input_lower) \/ input_lower = << >>
  IN  IF RowMatches(row, input_lower) THEN SelectSeq(row[2], Keep) ELSE << >>

get_fallback_suggestions(input) ==
  LET input_lower == ToLower(input)
      fromTable == Concat([i \in 1..Len(patterns) |->
                             RowCompletions(patterns[i], input_lower)])
      Keep(s) == StartsWith(s, input_lower)
      suggestions ==
        IF fromTable = << >> /\ input # << >>
          THEN SelectSeq(FirstCharTable(LowerChar(Head(input))), Keep)
          ELSE fromTable
  IN  Take(suggestions, MaxSuggestions)

(***************************************************************************)
(* fetch_suggestions: parsing of the remote response text.                 *)
(***************************************************************************)
RECURSIVE Lines(_)
Lines(text) ==
  IF text = << >> THEN << >>
  ELSE IF \E i \in 1..Len(text) : text[i] = "\n"
    THEN LET i == CHOOSE j \in 1..Len(text) :
                    text[j] = "\n" /\ \A k \in 1..(j - 1) : text[k] # "\n"
         IN  <<SubSeq(text, 1, i - 1)>> \o Lines(SubSeq(text, i + 1, Len(text)))
    ELSE <<text>>

BulletChars == {"-", "*", "."} \cup Digits

StripMarker(line) == Trim(TrimStartMatches(line, BulletChars))

ParseResponse(response) ==
  LET trimmed == [i \in 1..Len(Lines(response)) |-> Trim(Lines(response)[i])]
      NonEmpty(l) == l # << >>
      stripped == [i \in 1..Len(SelectSeq(trimmed, NonEmpty)) |->
                     StripMarker(SelectSeq(trimmed, NonEmpty)[i])]
  IN  Take(SelectSeq(stripped, NonEmpty), MaxSuggestions)

(***************************************************************************)
(* State.                                                                  *)
(*   now             the monotonic clock read by Instant::now()            *)
(*   config          the AiConfig snapshot (plus whether a client exists)  *)
(*   cache           HashMap<String, CachedSuggestion>                     *)
(*   timestamps      RateLimiter::timestamps                               *)
(*   pending_request Option<String>                                        *)
(*   calls           one record per get_suggestions(_immediate) call; its  *)
(*                   fields reached, overtaken, admitted, remote,          *)
(*                   cache_writes, wrote_at and admitted_at are history;   *)
(*                   holds is the set of mutexes whose guard it holds      *)
(* History kept for stating properties (never read by the operations):     *)
(*   inserted        the insertion time of each stored cache entry         *)
(*   last_put        the most recent add_to_cache not yet followed by a    *)
(*                   write or a clear                                      *)
(*   allow_log       every allow_request() call: its time and its answer   *)
(*   token_writes    the calls that wrote pending_request, in order        *)
(*   ops             number of direct operations performed                 *)
(* The suggestion channel:                                                 *)
(*   input_rx        the inputs sent and not yet received by the worker    *)
(*   result_rx       the results the worker has sent, in order             *)
(*   worker          the worker task: where it is in its loop, how many    *)
(*                   inputs it has received and the input it is handling   *)
(*   sent            (history) every input sent on input_tx, in order      *)
(***************************************************************************)
VARIABLES now, config, cache, timestamps, pending_request, calls,
          inserted, last_put, allow_log, token_writes, ops,
          input_rx, result_rx, worker, sent

(* The channels and the task of create_suggestion_channel. *)
channel == <<input_rx, result_rx, worker, sent>>

vars == <<now, config, cache, timestamps, pending_request, calls,
          inserted, last_put, allow_log, token_writes, ops, channel>>

None == [some |-> FALSE]

Some(v) == [some |-> TRUE, value |-> v]

Calls == 1..NumCalls

(***************************************************************************)
(* Inputs typed by the user, cache keys and remote outcomes.               *)
(***************************************************************************)
Inputs ==
  { << >>,
    <<" ">>,
    <<"l", "s", " ">>,
    <<"c", "d">> }

Keys ==
  { <<"a">>, <<"b">>, <<"c">>, <<"d">>, <<"e">> }

SuggestionLists ==
  { <<<<"t", "1">>>>,
    <<<<"t", "1">>, <<"t", "2">>>> }

RemoteResponses ==
  { <<"-", " ", "l", "s", " ", "-", "l", "a", "\n",
      "-", " ", "l", "s", " ", "-", "l", "\n">>,
    <<"1", ".", " ", "a", "\n", "\n", " ", "*", " ", "b", "\n", "c", "\n",
      "d", "\n", "e", "\n", "f">> }

RemoteErrors == {"Timeout"}

ConcurrentInputs ==
  { <<"l", "s", " ">>,
    <<"c", "d">> }

(* Inputs of the end-to-end scenarios and of test_fallback_suggestions. *)
ScenarioInputs ==
  { <<" ">>,
    <<"l", "s", " ">>,
    <<"c", "a", "r", "g", "o", " ", "b">>,
    <<"g", "i", "t", " ", "c">>,
    <<"G", "i", "t", " ">> }

(* The fallback list of every input a call can carry and the parsed list   *)
(* of every remote answer, tabulated once.                                 *)
TypedInputs == Inputs \cup ScenarioInputs \cup ConcurrentInputs

FallbackOf == [inp \in TypedInputs |-> get_fallback_suggestions(inp)]

ParsedOf == [response \in RemoteResponses |-> ParseResponse(response)]

(***************************************************************************)
(* RateLimiter::allow_request.                                             *)
(***************************************************************************)
(* Variant: timestamps are pruned one tick before the window has passed. *)
RetainShort(ts, t) ==
  LET InWindow(x) == t - x < Window - 1
  IN  SelectSeq(ts, InWindow)

Retain(ts, t) ==
  LET InWindow(x) == t - x < Window
  IN  SelectSeq(ts, InWindow)

(* Variant: the admission test is <= instead of <. *)
allow_request_inclusive(ts, max_requests, t) ==
  LET kept == SelectSeq(ts, LAMBDA x : t - x < Window)
  IN  IF Len(kept) <= max_requests
        THEN [ok |-> TRUE, timestamps |-> Append(kept, t)]
        ELSE [ok |-> FALSE, timestamps |-> kept]

(* Variant: the admission test reads the length before pruning. *)
allow_request_test_before_prune(ts, max_requests, t) ==
  LET kept == SelectSeq(ts, LAMBDA x : t - x < Window)
  IN  IF Len(ts) < max_requests
        THEN [ok |-> TRUE, timestamps |-> Append(kept, t)]
        ELSE [ok |-> FALSE, timestamps |-> kept]

(* Variant: a denied attempt is recorded as well. *)
allow_request_records_denied(ts, max_requests, t) ==
  LET kept == SelectSeq(ts, LAMBDA x : t - x < Window)
  IN  [ok |-> Len(kept) < max_requests, timestamps |-> Append(kept, t)]

allow_request(ts, max_requests, t) ==
  LET kept == Retain(ts, t)
  IN  IF Len(kept) < max_requests
        THEN [ok |-> TRUE, timestamps |-> Append(kept, t)]
        ELSE [ok |-> FALSE, timestamps |-> kept]

(* remaining_requests: max_requests_per_minute.saturating_sub(len). *)
remaining_requests(ts, max_requests) ==
  IF max_requests >= Len(ts) THEN max_requests - Len(ts) ELSE 0

(***************************************************************************)
(* get_from_cache, add_to_cache, clear_cache.                              *)
(***************************************************************************)
(* Variant: an entry is still returned at the instant it expires. *)
get_from_cache_inclusive(c, key, t) ==
  IF key \in DOMAIN c /\ t <= c[key].expires_at
    THEN Some(c[key].suggestions)
    ELSE None

(* Variant: the lookup key is the trimmed input, not the exact input. *)
get_from_cache_normalized(c, key, t) ==
  IF Trim(key) \in DOMAIN c /\ t < c[Trim(key)].expires_at
    THEN Some(c[Trim(key)].suggestions)
    ELSE None

get_from_cache(c, key, t) ==
  IF key \in DOMAIN c /\ t < c[key].expires_at
    THEN Some(c[key].suggestions)
    ELSE None

Restrict(c, keys) == [k \in keys |-> c[k]]

Sweep(c, t) == Restrict(c, {k \in DOMAIN c : c[k].expires_at > t})

(* The key sets the "remove oldest" loop may remove: HashMap iteration     *)
(* order is unspecified, so any cache.len() / 4 of the swept keys.         *)
Victims(c, cap, t) ==
  LET live == DOMAIN Sweep(c, t)
      count == Cardinality(live) \div EvictDivisor
  IN  IF Cardinality(DOMAIN c) >= cap /\ Cardinality(live) >= cap
        THEN {v \in SUBSET live : Cardinality(v) = count}
        ELSE {{}}

Evict(c, cap, t, victims) ==
  IF Cardinality(DOMAIN c) >= cap
    THEN Restrict(c, {k \in DOMAIN c : c[k].expires_at > t} \ victims)
    ELSE c

Insert(c, key, suggestions, expires_at) ==
  [k \in DOMAIN c \cup {key} |->
     IF k = key
       THEN [suggestions |-> suggestions, expires_at |-> expires_at]
       ELSE c[k]]

(* Variant: the new entry is inserted before the eviction loop runs. *)
add_to_cache_insert_first(c, key, suggestions, t, victims) ==
  LET full == Insert(c, key, suggestions, t + config.cache_ttl)
  IN  IF Cardinality(DOMAIN c) >= config.max_cache_entries
        THEN Restrict(Sweep(full, t), DOMAIN Sweep(full, t) \ victims)
        ELSE full

(* Variant: room is made but the new entry is not stored. *)
add_to_cache_without_insert(c, key, suggestions, t, victims) ==
  Evict(c, config.max_cache_entries, t, victims)

add_to_cache(c, key, suggestions, t, victims) ==
  Insert(Evict(c, config.max_cache_entries, t, victims),
         key, suggestions, t + config.cache_ttl)

EmptyCache == [k \in {} |-> None]

cache_size(c) == Cardinality(DOMAIN c)

(* History: insertion times follow the stored keys. *)
InsertedAfter(c2, key, t) ==
  [k \in DOMAIN c2 |-> IF k = key THEN t ELSE inserted[k]]

AddToCacheEffect(key, suggestions, victims) ==
  /\ cache' = add_to_cache(cache, key, suggestions, now, victims)
  /\ inserted' = InsertedAfter(cache', key, now)
  /\ last_put' = Some([key |-> key, suggestions |-> suggestions, at |-> now,
                       removed |-> Cardinality(DOMAIN cache) -
                         Cardinality(DOMAIN Evict(cache, config.max_cache_entries,
                                                  now, victims))])

(***************************************************************************)
(* Results.                                                                *)
(***************************************************************************)
Ok(suggestions, from_cache, is_fallback) ==
  [ok |-> TRUE, suggestions |-> suggestions,
   from_cache |-> from_cache, is_fallback |-> is_fallback]

Err(e) == [ok |-> FALSE, err |-> e]

EmptyResult == Ok(<< >>, FALSE, FALSE)

NoResult == [ok |-> FALSE, err |-> "none"]

IdleCall ==
  [pc |-> "idle", kind |-> "none", input |-> << >>, wake_at |-> 0,
   result |-> NoResult, reached |-> FALSE, overtaken |-> FALSE,
   admitted |-> FALSE, remote |-> 0, cache_writes |-> 0, wrote_at |-> 0,
   admitted_at |-> 0, holds |-> {}]

(* Variant: a MutexGuard outlives the block that took it. *)
KeepGuards(held) == held

(* The MutexGuards of get_suggestions are locals of a block: they are      *)
(* dropped where the block ends or returns.                                *)
DropGuards(held) == {}

Set(p, fields) ==
  [calls EXCEPT ![p] = [f \in DOMAIN calls[p] |->
                          IF f \in DOMAIN fields THEN fields[f]
                          ELSE IF f = "holds" THEN DropGuards(calls[p].holds)
                          ELSE calls[p][f]]]

(***************************************************************************)
(* Time.                                                                   *)
(***************************************************************************)
Tick(horizon) ==
  /\ now < horizon
  /\ now' = now + 1
  /\ UNCHANGED <<config, cache, timestamps, pending_request, calls,
                 inserted, last_put, allow_log, token_writes, ops, channel>>

(***************************************************************************)
(* get_suggestions and get_suggestions_immediate, one action per critical  *)
(* section or suspension point of a call p.                                *)
(*   idle  --Start-->        done | wr (debounced miss) | rl (immediate)   *)
(*   wr    --WritePending--> sleep                                         *)
(*   sleep --Compare-->      done (superseded) | rl                        *)
(*   rl    --RateLimit-->    done (denied) | fetch                         *)
(*   fetch --FetchOk / FetchErr--> done                                    *)
(* Calls are numbered in the order they are issued.                        *)
(***************************************************************************)
Finish(p, result) == [pc |-> "done", result |-> result]

InDelay(q) == calls[q].pc = "sleep" /\ now < calls[q].wake_at

(* Variant: the immediate entry point debounces as well. *)
StartAlwaysDebounced(p, kind, inp) ==
  /\ calls[p].pc = "idle"
  /\ \A q \in Calls : q < p => calls[q].pc # "idle"
  /\ LET begun == [kind |-> kind, input |-> inp]
         hit == get_from_cache(cache, inp, now)
     IN  calls' =
           IF ~config.enabled \/ Trim(inp) = << >>
             THEN Set(p, begun @@ Finish(p, EmptyResult))
           ELSE IF hit.some
             THEN Set(p, begun @@ Finish(p, Ok(hit.value, TRUE, FALSE)))
           ELSE Set(p, begun @@ [pc |-> "wr"])
  /\ UNCHANGED <<now, config, cache, timestamps, pending_request,
                 inserted, last_put, allow_log, token_writes, ops, channel>>

Start(p, kind, inp) ==
  /\ calls[p].pc = "idle"
  /\ \A q \in Calls : q < p => calls[q].pc # "idle"
  /\ LET begun == [kind |-> kind, input |-> inp]
         hit == get_from_cache(cache, inp, now)
         after ==
           IF ~config.enabled \/ Trim(inp) = << >>
             THEN Set(p, begun @@ Finish(p, EmptyResult))
           ELSE IF hit.some
             THEN Set(p, begun @@ Finish(p, Ok(hit.value, TRUE, FALSE)))
           ELSE IF kind = "debounced"
             THEN Set(p, begun @@ [pc |-> "wr"])
           ELSE Set(p, begun @@ [pc |-> "rl", reached |-> TRUE])
     IN  calls' = [q \in Calls |->
                     IF q # p /\ kind = "debounced" /\ InDelay(q)
                          /\ calls[q].input # inp
                       THEN [after[q] EXCEPT !.overtaken = TRUE]
                       ELSE after[q]]
  /\ UNCHANGED <<now, config, cache, timestamps, pending_request,
                 inserted, last_put, allow_log, token_writes, ops, channel>>

WritePending(p) ==
  /\ calls[p].pc = "wr"
  /\ pending_request' = Some(calls[p].input)
  /\ token_writes' = Append(token_writes, p)
  /\ calls' = Set(p, [pc |-> "sleep", wake_at |-> now + config.debounce])
  /\ UNCHANGED <<now, config, cache, timestamps,
                 inserted, last_put, allow_log, ops, channel>>

(* The mutex the call's next block locks. *)
NeededLock(p) ==
  CASE calls[p].pc \in {"wr", "sleep"} -> "pending_request"
    [] calls[p].pc = "rl" -> "rate_limiter"
    [] OTHER -> "none"

Holds(p, mutex) == mutex \in calls[p].holds

(* parking_lot::Mutex::lock: returns once no other guard exists. *)
Lock(p) ==
  /\ NeededLock(p) # "none"
  /\ calls[p].pc = "sleep" => now >= calls[p].wake_at
  /\ \A q \in Calls : ~Holds(q, NeededLock(p))
  /\ calls' = [calls EXCEPT ![p].holds = {NeededLock(p)}]
  /\ UNCHANGED <<now, config, cache, timestamps, pending_request,
                 inserted, last_put, allow_log, token_writes, ops, channel>>

(* Variant: the post-delay comparison is skipped. *)
StillLatestUnchecked(p) == TRUE

StillLatest(p) == pending_request = Some(calls[p].input)

(* Variant: a superseded call waits for its input to become the latest. *)
CompareWaits(p) ==
  /\ calls[p].pc = "sleep"
  /\ now >= calls[p].wake_at
  /\ StillLatest(p)
  /\ calls' = Set(p, [pc |-> "rl", reached |-> TRUE])
  /\ UNCHANGED <<now, config, cache, timestamps, pending_request,
                 inserted, last_put, allow_log, token_writes, ops, channel>>

Compare(p) ==
  /\ calls[p].pc = "sleep"
  /\ now >= calls[p].wake_at
  /\ calls' =
       IF StillLatest(p)
         THEN Set(p, [pc |-> "rl", reached |-> TRUE])
         ELSE Set(p, Finish(p, EmptyResult))
  /\ UNCHANGED <<now, config, cache, timestamps, pending_request,
                 inserted, last_put, allow_log, token_writes, ops, channel>>

(* Variant: the remote call is issued whatever allow_request() answers. *)
RateLimitUnenforced(p) ==
  /\ calls[p].pc = "rl"
  /\ LET r == allow_request(timestamps, config.max_requests_per_minute, now)
     IN  /\ timestamps' = r.timestamps
         /\ allow_log' = Append(allow_log, [at |-> now, ok |-> r.ok])
         /\ calls' = Set(p, [pc |-> "fetch", admitted |-> r.ok,
                             admitted_at |-> now,
                             remote |-> IF config.client THEN 1 ELSE 0])
  /\ UNCHANGED <<now, config, cache, pending_request,
                 inserted, last_put, token_writes, ops, channel>>

RateLimit(p) ==
  /\ calls[p].pc = "rl"
  /\ LET r == allow_request(timestamps, config.max_requests_per_minute, now)
     IN  /\ timestamps' = r.timestamps
         /\ allow_log' = Append(allow_log, [at |-> now, ok |-> r.ok])
         /\ calls' =
              IF r.ok
                THEN Set(p, [pc |-> "fetch", admitted |-> TRUE,
                             admitted_at |-> now,
                             remote |-> IF config.client THEN 1 ELSE 0])
              ELSE IF config.use_fallback
                THEN Set(p, Finish(p, Ok(FallbackOf[calls[p].input],
                                         FALSE, TRUE)))
              ELSE Set(p, Finish(p, Err("RateLimited")))
  /\ UNCHANGED <<now, config, cache, pending_request,
                 inserted, last_put, token_writes, ops, channel>>

FetchOk(p, response) ==
  /\ calls[p].pc = "fetch"
  /\ config.client
  /\ LET suggestions == ParsedOf[response]
     IN  /\ \E victims \in Victims(cache, config.max_cache_entries, now) :
               AddToCacheEffect(calls[p].input, suggestions, victims)
         /\ calls' = Set(p, Finish(p, Ok(suggestions, FALSE, FALSE))
                            @@ [cache_writes |-> calls[p].cache_writes + 1,
                                wrote_at |-> now])
  /\ UNCHANGED <<now, config, timestamps, pending_request,
                 allow_log, token_writes, ops, channel>>

(* Variant: the fallback list of a failed remote call is cached. *)
FetchErrCachesFallback(p, e) ==
  /\ calls[p].pc = "fetch"
  /\ e \in (IF config.client THEN RemoteErrors ELSE {"ApiError"})
  /\ config.use_fallback
  /\ \E victims \in Victims(cache, config.max_cache_entries, now) :
       AddToCacheEffect(calls[p].input,
                        FallbackOf[calls[p].input], victims)
  /\ calls' = Set(p, Finish(p, Ok(FallbackOf[calls[p].input],
                                  FALSE, TRUE)))
  /\ UNCHANGED <<now, config, timestamps, pending_request,
                 allow_log, token_writes, ops, channel>>

(* Variant: the failure is replaced by the fallback whatever use_fallback. *)
FetchErrAlwaysFallback(p, e) ==
  /\ calls[p].pc = "fetch"
  /\ e \in (IF config.client THEN RemoteErrors ELSE {"ApiError"})
  /\ calls' = Set(p, Finish(p, Ok(FallbackOf[calls[p].input],
                                  FALSE, TRUE)))
  /\ UNCHANGED <<now, config, cache, timestamps, pending_request,
                 inserted, last_put, allow_log, token_writes, ops, channel>>

FetchErr(p, e) ==
  /\ calls[p].pc = "fetch"
  /\ e \in (IF config.client THEN RemoteErrors ELSE {"ApiError"})
  /\ calls' =
       IF config.use_fallback
         THEN Set(p, Finish(p, Ok(FallbackOf[calls[p].input],
                                  FALSE, TRUE)))
         ELSE Set(p, Finish(p, Err(e)))
  /\ UNCHANGED <<now, config, cache, timestamps, pending_request,
                 inserted, last_put, allow_log, token_writes, ops, channel>>

(***************************************************************************)
(* Direct calls of the limiter and the cache (as the unit tests make).     *)
(***************************************************************************)
AllowRequestCall ==
  /\ ops < MaxAllows
  /\ LET r == allow_request(timestamps, config.max_requests_per_minute, now)
     IN  /\ timestamps' = r.timestamps
         /\ allow_log' = Append(allow_log, [at |-> now, ok |-> r.ok])
  /\ ops' = ops + 1
  /\ UNCHANGED <<now, config, cache, pending_request, calls,
                 inserted, last_put, token_writes,
                 channel>>

AddToCacheCall(key, suggestions) ==
  /\ ops < MaxOps
  /\ \E victims \in Victims(cache, config.max_cache_entries, now) :
       AddToCacheEffect(key, suggestions, victims)
  /\ ops' = ops + 1
  /\ UNCHANGED <<now, config, timestamps, pending_request, calls,
                 allow_log, token_writes,
                 channel>>

(* Variant: only the expired entries are removed. *)
ClearCacheCallExpiredOnly ==
  /\ ops < MaxOps
  /\ cache' = Sweep(cache, now)
  /\ inserted' = Restrict(inserted, DOMAIN cache')
  /\ last_put' = None
  /\ ops' = ops + 1
  /\ UNCHANGED <<now, config, timestamps, pending_request, calls,
                 allow_log, token_writes,
                 channel>>

ClearCacheCall ==
  /\ ops < MaxOps
  /\ cache' = EmptyCache
  /\ inserted' = EmptyCache
  /\ last_put' = None
  /\ ops' = ops + 1
  /\ UNCHANGED <<now, config, timestamps, pending_request, calls,
                 allow_log, token_writes,
                 channel>>

(***************************************************************************)
(* create_suggestion_channel: two bounded channels and one spawned task    *)
(* that owns an engine and loops: receive an input, await                  *)
(* get_suggestions() on it, send the result.                               *)
(***************************************************************************)
IdleWorker == [pc |-> "recv", received |-> 0, input |-> << >>]

(* input_tx.send(inp) by the holder of the sender. *)
SendInput(inp) ==
  /\ Len(sent) < NumCalls
  /\ Len(input_rx) < ChannelCapacity
  /\ input_rx' = Append(input_rx, inp)
  /\ sent' = Append(sent, inp)
  /\ UNCHANGED <<now, config, cache, timestamps, pending_request, calls,
                 inserted, last_put, allow_log, token_writes, ops,
                 result_rx, worker>>

(* input_rx.recv().await yields the oldest input. *)
Recv ==
  /\ worker.pc = "recv"
  /\ input_rx # << >>
  /\ worker' = [pc |-> "call", received |-> worker.received + 1,
                input |-> Head(input_rx)]
  /\ input_rx' = Tail(input_rx)
  /\ UNCHANGED <<now, config, cache, timestamps, pending_request, calls,
                 inserted, last_put, allow_log, token_writes, ops,
                 result_rx, sent>>

(* The worker calls engine.get_suggestions(&input). *)
WorkerCall ==
  /\ worker.pc = "call"
  /\ Start(worker.received, "debounced", worker.input)

(* Variant: the worker goes on as soon as the call has begun. *)
ReturnedAtOnce(p) == calls[p].pc # "idle"

(* engine.get_suggestions(&input).await has resolved. *)
Returned(p) == calls[p].pc = "done"

(* What the match on the call's result sends. *)
Emit(result) == IF result.ok THEN result ELSE Ok(<< >>, FALSE, FALSE)

(* result_tx.send(..).await, the receiver open and drained. *)
SendResult ==
  /\ worker.pc = "call"
  /\ Returned(worker.received)
  /\ result_rx' = Append(result_rx, Emit(calls[worker.received].result))
  /\ worker' = [worker EXCEPT !.pc = "recv"]
  /\ UNCHANGED <<now, config, cache, timestamps, pending_request, calls,
                 inserted, last_put, allow_log, token_writes, ops,
                 input_rx, sent>>

(***************************************************************************)
(* Configurations and specifications.                                      *)
(***************************************************************************)
DefaultConfig ==
  [enabled |-> TRUE, use_fallback |-> TRUE, client |-> TRUE,
   max_requests_per_minute |-> MaxRequests, max_cache_entries |-> MaxCap,
   cache_ttl |-> MaxTtl, debounce |-> MaxDebounce]

EngineConfigs ==
  { c \in [enabled : BOOLEAN, use_fallback : BOOLEAN, client : BOOLEAN,
           max_requests_per_minute : 0..MaxRequests,
           max_cache_entries : {MaxCap},
           cache_ttl : 0..MaxTtl, debounce : 0..MaxDebounce] :
      c.client => c.enabled }

LimiterConfigs ==
  { [DefaultConfig EXCEPT !.max_requests_per_minute = n] :
      n \in 0..MaxLimiterRequests }

CacheConfigs ==
  { [DefaultConfig EXCEPT !.max_cache_entries = cap, !.cache_ttl = ttl] :
      cap \in 0..MaxCap, ttl \in 0..MaxTtl }

(* An enabled engine whose limiter admits one or two requests a minute. *)
ScenarioConfigs ==
  [enabled : {TRUE}, use_fallback : BOOLEAN, client : BOOLEAN,
   max_requests_per_minute : MaxRequests..(MaxRequests + 1),
   max_cache_entries : {MaxCap},
   cache_ttl : {MaxTtl}, debounce : {MaxDebounce}]

(* An engine with a client, under contention for one admission a window. *)
ConcurrentConfigs ==
  [enabled : {TRUE}, use_fallback : BOOLEAN, client : {TRUE},
   max_requests_per_minute : {MaxRequests},
   max_cache_entries : {MaxCap},
   cache_ttl : {MaxTtl}, debounce : {MaxDebounce}]

InitWith(configs) ==
  /\ now = 0
  /\ config \in configs
  /\ cache = EmptyCache
  /\ timestamps = << >>
  /\ pending_request = None
  /\ calls = [p \in Calls |-> IdleCall]
  /\ inserted = EmptyCache
  /\ last_put = None
  /\ allow_log = << >>
  /\ token_writes = << >>
  /\ ops = 0
  /\ input_rx = << >>
  /\ result_rx = << >>
  /\ worker = IdleWorker
  /\ sent = << >>

Init == InitWith(EngineConfigs)

Next ==
  \/ Tick(MaxTime)
  \/ \E p \in Calls, inp \in Inputs : Start(p, "debounced", inp)
  \/ \E p \in Calls, inp \in Inputs : Start(p, "immediate", inp)
  \/ \E p \in Calls : WritePending(p)
  \/ \E p \in Calls : Compare(p)
  \/ \E p \in Calls : RateLimit(p)
  \/ \E p \in Calls, response \in RemoteResponses : FetchOk(p, response)
  \/ \E p \in Calls, e \in RemoteErrors \cup {"ApiError"} : FetchErr(p, e)

Spec == Init /\ [][Next]_vars

InitLimiter == InitWith(LimiterConfigs)

NextLimiter ==
  \/ Tick(MaxLimiterTime)
  \/ AllowRequestCall

SpecLimiter == InitLimiter /\ [][NextLimiter]_vars

InitCache == InitWith(CacheConfigs)

NextCache ==
  \/ Tick(MaxCacheTime)
  \/ \E key \in Keys, suggestions \in SuggestionLists :
       AddToCacheCall(key, suggestions)
  \/ ClearCacheCall

SpecCache == InitCache /\ [][NextCache]_vars

InitScenario == InitWith(ScenarioConfigs)

NextScenario ==
  \/ Tick(MaxTime)
  \/ \E p \in Calls, inp \in ScenarioInputs : Start(p, "debounced", inp)
  \/ \E p \in Calls, inp \in ScenarioInputs : Start(p, "immediate", inp)
  \/ \E p \in Calls : WritePending(p)
  \/ \E p \in Calls : Compare(p)
  \/ \E p \in Calls : RateLimit(p)
  \/ \E p \in Calls, response \in RemoteResponses : FetchOk(p, response)
  \/ \E p \in Calls, e \in RemoteErrors \cup {"ApiError"} : FetchErr(p, e)
  \/ (ops < MaxClears /\ ClearCacheCall)

SpecScenario == InitScenario /\ [][NextScenario]_vars

(* The clock runs to the end of every delay that has begun. *)
DelayHorizon ==
  IF \E p \in Calls : InDelay(p) THEN now + 1 ELSE MaxEngineTime

InitConcurrent == InitWith(ConcurrentConfigs)

(* The calls of one engine on a multi-threaded runtime, every mutex taken  *)
(* and released as the blocks of get_suggestions take and release it.      *)
NextConcurrent ==
  \/ Tick(DelayHorizon)
  \/ \E p \in Calls, inp \in ConcurrentInputs : Start(p, "debounced", inp)
  \/ \E p \in Calls, inp \in ConcurrentInputs : Start(p, "immediate", inp)
  \/ \E p \in Calls : Lock(p)
  \/ \E p \in Calls : Holds(p, "pending_request") /\ WritePending(p)
  \/ \E p \in Calls : Holds(p, "pending_request") /\ Compare(p)
  \/ \E p \in Calls : Holds(p, "rate_limiter") /\ RateLimit(p)
  \/ \E p \in Calls, response \in RemoteResponses : FetchOk(p, response)
  \/ \E p \in Calls, e \in RemoteErrors : FetchErr(p, e)

SpecConcurrent == InitConcurrent /\ [][NextConcurrent]_vars

(* The response future of client.prompt resolves, Ok or Err. *)
RemoteReturns(p) ==
  \/ \E response \in RemoteResponses : FetchOk(p, response)
  \/ \E e \in RemoteErrors : FetchErr(p, e)

(* The runtime polls every ready task, timers fire, and a mutex that is    *)
(* free is granted; nothing is assumed about the remote service.           *)
Scheduling ==
  /\ WF_vars(Tick(DelayHorizon))
  /\ \A p \in Calls :
       /\ WF_vars(Lock(p))
       /\ WF_vars(Holds(p, "pending_request") /\ WritePending(p))
       /\ WF_vars(Holds(p, "pending_request") /\ Compare(p))
       /\ WF_vars(Holds(p, "rate_limiter") /\ RateLimit(p))

SpecConcurrentFair == SpecConcurrent /\ Scheduling

(* AiConfig::default(); the client is absent when it could not be built.   *)
WorkerConfigs == { [DefaultConfig EXCEPT !.client = c] : c \in BOOLEAN }

WorkerInputs ==
  { <<" ">>,
    <<"l", "s", " ">>,
    <<"c", "d">> }

InitWorker == InitWith(WorkerConfigs)

NextWorker ==
  \/ Tick(MaxEngineTime)
  \/ \E inp \in WorkerInputs : SendInput(inp)
  \/ Recv
  \/ WorkerCall
  \/ \E p \in Calls : WritePending(p)
  \/ \E p \in Calls : Compare(p)
  \/ \E p \in Calls : RateLimit(p)
  \/ \E p \in Calls, response \in RemoteResponses : FetchOk(p, response)
  \/ \E p \in Calls, e \in RemoteErrors \cup {"ApiError"} : FetchErr(p, e)
  \/ SendResult

SpecWorker == InitWorker /\ [][NextWorker]_vars

(***************************************************************************)
(* Properties.                                                             *)
(***************************************************************************)
Wrote(p) == \E i \in DOMAIN token_writes : token_writes[i] = p

WriteIdx(p) == CHOOSE i \in DOMAIN token_writes : token_writes[i] = p

WriteTime(p) == calls[p].wake_at - config.debounce

(* y wrote the token after x did, with another input, before x's delay     *)
(* elapsed, and no later write carries x's input again.                    *)
Supersedes(y, x) ==
  /\ x # y
  /\ Wrote(x) /\ Wrote(y)
  /\ calls[x].input # calls[y].input
  /\ WriteIdx(y) > WriteIdx(x)
  /\ WriteTime(y) < calls[x].wake_at
  /\ \A z \in Calls :
       (Wrote(z) /\ WriteIdx(z) > WriteIdx(x)) => calls[z].input # calls[x].input

NoWork(x) ==
  /\ ~calls[x].reached
  /\ ~calls[x].admitted
  /\ calls[x].remote = 0
  /\ calls[x].cache_writes = 0

(* C1: a debounced call x whose token was overwritten with a different     *)
(* input y before x's delay elapsed never reaches the rate-limit / remote  *)
(* / fallback stage: it is admitted by no limiter, issues no remote call,  *)
(* writes no cache entry, and when it returns it returns Ok with empty     *)
(* suggestions, from_cache = false, is_fallback = false; the superseding   *)
(* call y, when it is the last writer, is the one that reaches the stage.  *)
DebounceSupersession ==
  \A x \in Calls, y \in Calls :
    Supersedes(y, x) =>
      /\ calls[x].pc \in {"sleep", "done"}
      /\ NoWork(x)
      /\ calls[x].pc = "done" => calls[x].result = EmptyResult
      /\ (WriteIdx(y) = Len(token_writes) /\ calls[y].pc # "sleep")
           => calls[y].reached

DebounceSupersessionWitness ==
  \E x \in Calls, y \in Calls :
    /\ Supersedes(y, x)
    /\ calls[x].pc = "done" /\ calls[x].result = EmptyResult
    /\ calls[y].pc = "done" /\ calls[y].remote = 1
    /\ calls[y].result.ok /\ ~calls[y].result.is_fallback

(* The token writes form one burst: each was made before the previous      *)
(* writer's delay had elapsed.                                             *)
Burst ==
  \A i \in 1..(Len(token_writes) - 1) :
    WriteTime(token_writes[i + 1]) < calls[token_writes[i]].wake_at

(* C2: among a burst of debounced calls, at most one passes the post-delay *)
(* token comparison and proceeds to the rate-limiter / remote stage.       *)
BurstAtMostOneProceeds ==
  Burst => Cardinality({p \in Calls : Wrote(p) /\ calls[p].reached}) <= 1

(* C3: a debounced call that was inside its delay when a later call with a *)
(* different input was issued (whatever that call's outcome) does not      *)
(* contact the remote service.                                             *)
OnlyLastKeystrokeSurvives ==
  \A x \in Calls : calls[x].overtaken => calls[x].remote = 0

MaxReq == config.max_requests_per_minute

(* Call j of the limiter finds every earlier admission a full window old   *)
(* (the first call of a new limiter included).                             *)
FreshAt(j) ==
  \A i \in 1..(j - 1) :
    allow_log[i].ok => allow_log[j].at - allow_log[i].at >= Window

SameWindow(j, k) == allow_log[k].at - allow_log[j].at < Window

(* C4: with max_requests = N, starting from a new limiter or from a moment *)
(* at which the window has fully elapsed since the earlier admissions, the *)
(* first N calls to allow_request() within one window return true and the  *)
(* (N+1)th call within the same window returns false.                      *)
RateLimiterWindow ==
  \A j \in DOMAIN allow_log :
    FreshAt(j) =>
      \A k \in j..Len(allow_log) :
        SameWindow(j, k) =>
          /\ k - j < MaxReq => allow_log[k].ok
          /\ k - j = MaxReq => ~allow_log[k].ok

RateLimiterWindowWitness ==
  /\ MaxReq >= 1
  /\ Len(allow_log) >= MaxReq + 2
  /\ \A k \in 1..MaxReq : allow_log[k].ok
  /\ ~allow_log[MaxReq + 1].ok /\ SameWindow(1, MaxReq + 1)
  /\ FreshAt(MaxReq + 2) /\ allow_log[MaxReq + 2].ok

AdmittedWithin(T) ==
  {i \in DOMAIN allow_log :
     allow_log[i].ok /\ allow_log[i].at <= T /\ T - allow_log[i].at < Window}

(* C5: the number of admitted attempts whose timestamps fall within any    *)
(* trailing window-length interval never exceeds max_requests.             *)
SlidingWindowCap ==
  \A T \in 0..now : Cardinality(AdmittedWithin(T)) <= MaxReq

SlidingWindowCapWitness ==
  /\ MaxReq >= 1
  /\ Cardinality(AdmittedWithin(now)) = MaxReq
  /\ \E i \in DOMAIN allow_log : ~allow_log[i].ok
  /\ \E i \in DOMAIN allow_log : allow_log[i].ok /\ now - allow_log[i].at >= Window

(* C6: the number of stored entries is at most max_cache_entries whenever  *)
(* an add_to_cache call has completed.                                     *)
CacheWithinCapacity ==
  Cardinality(DOMAIN cache) <= config.max_cache_entries

(* C7: after add_to_cache(k, v), as long as no write or clear intervenes   *)
(* and the TTL has not elapsed, get_from_cache(k) returns exactly v.       *)
CacheRoundTrip ==
  (last_put.some /\ now < last_put.value.at + config.cache_ttl) =>
    get_from_cache(cache, last_put.value.key, now)
      = Some(last_put.value.suggestions)

(* The insert removed an entry by the quarter rule: nothing can have       *)
(* expired at time 0 with a positive TTL.                                  *)
CacheRoundTripWitness ==
  /\ last_put.some
  /\ now = 0 /\ config.cache_ttl > 0
  /\ last_put.value.removed >= 1
  /\ get_from_cache(cache, last_put.value.key, now)
       = Some(last_put.value.suggestions)

Live(key) == key \in DOMAIN cache /\ now < inserted[key] + config.cache_ttl

CacheVisible ==
  \A key \in Inputs \cup Keys :
    get_from_cache(cache, key, now)
      = IF Live(key) THEN Some(cache[key].suggestions) ELSE None

Returns(p) == calls[p].pc = "idle" /\ calls'[p].pc = "done"

Started(p) == calls[p].pc = "idle" /\ calls'[p].pc # "idle"

HitIsLive ==
  \A p \in Calls :
    (Returns(p) /\ calls'[p].result.ok /\ calls'[p].result.from_cache)
      => Live(calls'[p].input)

(* C8: an entry inserted at t0 with TTL t is returned by get_from_cache    *)
(* exactly while now < t0 + t, also while it is still stored afterwards,   *)
(* and no result tagged from_cache = true comes from an expired entry.     *)
CacheExpiry == CacheVisible /\ [][CacheVisible' /\ HitIsLive]_vars

CacheExpiryWitness ==
  \E key \in DOMAIN cache :
    /\ now >= inserted[key] + config.cache_ttl
    /\ get_from_cache(cache, key, now) = None
    /\ \E p \in Calls : calls[p].pc = "done" /\ calls[p].result.ok
                          /\ calls[p].result.from_cache

(* The trimmed input is empty exactly when every character is whitespace. *)
Blank(s) == \A i \in DOMAIN s : s[i] \in Whitespace

Frame ==
  /\ cache' = cache
  /\ timestamps' = timestamps
  /\ pending_request' = pending_request
  /\ \A q \in Calls : calls'[q].remote = calls[q].remote

(* C9: if the engine is disabled or the trimmed input is empty, both entry *)
(* points return Ok{[], false, false} and leave the cache, the limiter     *)
(* timestamps and the pending token unchanged, with no remote call.        *)
DisabledOrEmptyIsNoOp ==
  [][\A p \in Calls :
       (Started(p) /\ (~config.enabled \/ Blank(calls'[p].input)))
         => /\ calls'[p].pc = "done"
            /\ calls'[p].result = EmptyResult
            /\ Frame]_vars

DisabledOrEmptyIsNoOpWitness ==
  \E p \in Calls :
    /\ calls[p].pc = "done"
    /\ config.enabled
    /\ calls[p].input # << >> /\ Blank(calls[p].input)
    /\ calls[p].result = EmptyResult
    /\ cache # EmptyCache /\ pending_request.some /\ timestamps # << >>

(* C10: when a live entry exists for the exact input string, both entry    *)
(* points return its list tagged from_cache = true, is_fallback = false,   *)
(* and leave the cache, the limiter timestamps and the pending token       *)
(* unchanged, with no remote call.                                         *)
CacheHitNoSideEffects ==
  [][\A p \in Calls :
       (/\ Started(p)
        /\ config.enabled
        /\ ~Blank(calls'[p].input)
        /\ Live(calls'[p].input))
         => /\ calls'[p].pc = "done"
            /\ calls'[p].result
                 = Ok(cache[calls'[p].input].suggestions, TRUE, FALSE)
            /\ Frame]_vars

CacheHitNoSideEffectsWitness ==
  \E p \in Calls, q \in Calls :
    /\ calls[p].pc = "done" /\ calls[p].result.ok
    /\ calls[p].result.from_cache /\ calls[p].result.suggestions # << >>
    /\ calls[q].cache_writes = 1 /\ calls[q].input = calls[p].input
    /\ calls[p].kind = "debounced"
    /\ timestamps # << >> /\ pending_request.some

(* Call q's remote call succeeded and q stored its list. *)
FetchSucceeded(q) == calls[q].pc = "done" /\ calls[q].cache_writes = 1

FetchReturns(p) ==
  /\ calls[p].pc = "fetch" /\ calls'[p].pc = "done"
  /\ calls'[p].result.ok /\ ~calls'[p].result.is_fallback

RemoteLists == {ParseResponse(response) : response \in RemoteResponses}

(* No clear_cache() ran, and fewer than four entries were ever stored, so  *)
(* the quarter rule has removed nothing.                                   *)
NoEvictionOrClear ==
  /\ ops = 0
  /\ Cardinality({p \in Calls : calls[p].cache_writes >= 1}) < EvictDivisor

WithinTtlOf(q) ==
  /\ FetchSucceeded(q)
  /\ NoEvictionOrClear
  /\ now < calls[q].wrote_at + config.cache_ttl

OnlyWriterOf(q) ==
  \A r \in Calls \ {q} :
    calls[r].cache_writes >= 1 => calls[r].input # calls[q].input

(* C11, as stated: after q's remote call for x succeeded with list L, and  *)
(* with no eviction or clear, every lookup of x before L's TTL elapses     *)
(* yields L.                                                               *)
RemoteSuccessThenSameList ==
  \A q \in Calls :
    WithinTtlOf(q) =>
      get_from_cache(cache, calls[q].input, now)
        = Some(calls[q].result.suggestions)

RemoteSuccessStored ==
  \A p \in Calls :
    FetchReturns(p) =>
      /\ calls'[p].result.suggestions \in RemoteLists
      /\ ~calls'[p].result.from_cache
      /\ calls'[p].input \in DOMAIN cache'
      /\ cache'[calls'[p].input].suggestions = calls'[p].result.suggestions
      /\ cache'[calls'[p].input].expires_at = now + config.cache_ttl
      /\ calls'[p].remote = 1

SameListWhileOnlyWriter ==
  \A q \in Calls :
    (WithinTtlOf(q) /\ OnlyWriterOf(q)) =>
      get_from_cache(cache, calls[q].input, now)
        = Some(calls[q].result.suggestions)

LaterCallHitsCache ==
  \A p \in Calls, q \in Calls :
    (/\ Started(p)
     /\ WithinTtlOf(q) /\ OnlyWriterOf(q)
     /\ calls'[p].input = calls[q].input)
      => /\ calls'[p].pc = "done"
         /\ calls'[p].result = Ok(calls[q].result.suggestions, TRUE, FALSE)
         /\ calls'[p].remote = 0
         /\ cache' = cache

(* C11, amended: a successful remote call for x returns its parsed list L  *)
(* tagged from_cache = false, is_fallback = false and stores x -> L under  *)
(* the exact input; while L's TTL has not elapsed, with no eviction, no    *)
(* clear and no other successful remote call for x, every later call of    *)
(* either entry point with x returns L tagged from_cache = true and issues *)
(* no remote call.                                                         *)
RemoteSuccessThenCacheHit ==
  /\ SameListWhileOnlyWriter
  /\ [][RemoteSuccessStored /\ SameListWhileOnlyWriter'
          /\ LaterCallHitsCache]_vars

LsLa == <<"l", "s", " ", "-", "l", "a">>

LsL == <<"l", "s", " ", "-", "l">>

RemoteSuccessThenCacheHitWitness ==
  \E p \in Calls, q \in Calls :
    /\ FetchSucceeded(q) /\ calls[q].input = <<"l", "s", " ">>
    /\ calls[q].result = Ok(<<LsLa, LsL>>, FALSE, FALSE)
    /\ calls[p].pc = "done" /\ calls[p].input = calls[q].input
    /\ calls[p].result = Ok(<<LsLa, LsL>>, TRUE, FALSE)
    /\ calls[p].remote = 0

(* Call p asked the limiter on this step and was refused. *)
Denied(p) ==
  /\ calls[p].pc = "rl" /\ calls'[p].pc # "rl"
  /\ Len(allow_log') = Len(allow_log) + 1
  /\ ~allow_log'[Len(allow_log')].ok

(* C12: a cache-missing (and, when debounced, not superseded) call that    *)
(* the limiter refuses returns Ok with the fallback suggestions for its    *)
(* input, from_cache = false, is_fallback = true when use_fallback is      *)
(* set, and the RateLimited error otherwise; it issues no remote call and  *)
(* leaves the cache and the limiter's timestamps unchanged.                *)
DeniedFallsBack ==
  [][\A p \in Calls :
       Denied(p) =>
         /\ calls'[p].pc = "done"
         /\ calls'[p].result =
              IF config.use_fallback
                THEN Ok(get_fallback_suggestions(calls[p].input), FALSE, TRUE)
                ELSE Err("RateLimited")
         /\ \A q \in Calls : calls'[q].remote = calls[q].remote
         /\ calls'[p].remote = 0
         /\ cache' = cache
         /\ timestamps' = timestamps]_vars

DeniedFallsBackWitness ==
  \E p \in Calls :
    /\ calls[p].pc = "done" /\ calls[p].kind = "debounced"
    /\ calls[p].reached /\ ~calls[p].admitted
    /\ calls[p].result.ok /\ calls[p].result.is_fallback
    /\ ~calls[p].result.from_cache
    /\ calls[p].result.suggestions # << >>
    /\ ~allow_log[Len(allow_log)].ok
    /\ Len(timestamps) = MaxReq /\ cache # EmptyCache

(* Call p's remote call ended on this step without storing a list. *)
RemoteFailed(p) ==
  /\ calls[p].pc = "fetch" /\ calls'[p].pc = "done"
  /\ calls'[p].cache_writes = calls[p].cache_writes

FetchErrors == IF config.client THEN RemoteErrors ELSE {"ApiError"}

FailureOutcome ==
  \A p \in Calls :
    RemoteFailed(p) =>
      /\ IF config.use_fallback
           THEN calls'[p].result
                  = Ok(get_fallback_suggestions(calls[p].input), FALSE, TRUE)
           ELSE calls'[p].result \in {Err(e) : e \in FetchErrors}
      /\ cache' = cache
      /\ timestamps' = timestamps
      /\ \A q \in Calls : calls'[q].remote = calls[q].remote
      /\ calls'[p].remote = (IF config.client THEN 1 ELSE 0)

NoErrWithFallback ==
  config.use_fallback =>
    \A p \in Calls : calls[p].pc = "done" => calls[p].result.ok

(* C13: when the remote call fails (a missing client included), the call   *)
(* returns Ok with the fallback suggestions, is_fallback = true,           *)
(* from_cache = false if use_fallback is set, so that no call of an engine *)
(* with fallback enabled returns Err, and returns the remote error itself  *)
(* otherwise; nothing is written to the cache and no second remote call is *)
(* issued.                                                                 *)
RemoteFailureFallsBack ==
  []NoErrWithFallback /\ [][FailureOutcome]_vars

RemoteFailureFallsBackWitness ==
  \E p \in Calls, q \in Calls :
    /\ config.client /\ config.use_fallback
    /\ calls[p].pc = "done" /\ calls[p].admitted /\ calls[p].remote = 1
    /\ calls[p].cache_writes = 0
    /\ calls[p].result.ok /\ calls[p].result.is_fallback
    /\ calls[p].result.suggestions # << >>
    /\ FetchSucceeded(q) /\ cache # EmptyCache

CargoB == <<"c", "a", "r", "g", "o", " ", "b">>

CargoBuild == <<"c", "a", "r", "g", "o", " ", "b", "u", "i", "l", "d">>

CargoBuildRelease ==
  <<"c", "a", "r", "g", "o", " ", "b", "u", "i", "l", "d", " ",
    "-", "-", "r", "e", "l", "e", "a", "s", "e">>

(* C14: with the engine enabled, fallback enabled, an empty cache and the  *)
(* remote call failing, get_suggestions_immediate("cargo b") returns       *)
(* exactly ["cargo build", "cargo build --release"], from_cache = false,   *)
(* is_fallback = true.                                                     *)
CargoBScenario ==
  \A p \in Calls :
    (/\ config.enabled /\ config.use_fallback
     /\ cache = EmptyCache
     /\ calls[p].pc = "done" /\ calls[p].kind = "immediate"
     /\ calls[p].input = CargoB
     /\ calls[p].admitted /\ calls[p].cache_writes = 0)
      => calls[p].result = Ok(<<CargoBuild, CargoBuildRelease>>, FALSE, TRUE)

GitC == <<"g", "i", "t", " ", "c">>

FellBack(p) ==
  calls[p].pc = "done" /\ calls[p].result.ok /\ calls[p].result.is_fallback

(* C15: the fallback list depends on the input alone: calls that fell back *)
(* on the same input hold the same list whatever the cache, the limiter    *)
(* and the token were when they ran; the list for "git c" is non-empty;    *)
(* and every element of a list for a non-empty input starts with the       *)
(* lower-cased input.                                                      *)
FallbackDeterminism ==
  /\ \A p \in Calls, q \in Calls :
       (FellBack(p) /\ FellBack(q) /\ calls[p].input = calls[q].input)
         => calls[p].result.suggestions = calls[q].result.suggestions
  /\ \A p \in Calls :
       (FellBack(p) /\ calls[p].input = GitC)
         => calls[p].result.suggestions # << >>
  /\ \A p \in Calls :
       (FellBack(p) /\ calls[p].input # << >>)
         => \A i \in DOMAIN calls[p].result.suggestions :
              StartsWith(calls[p].result.suggestions[i],
                         ToLower(calls[p].input))

(* Two calls fell back on "git c", one refused by the limiter while the    *)
(* other had been admitted and its remote call failed.                     *)
FallbackDeterminismWitness ==
  \E p \in Calls, q \in Calls :
    /\ FellBack(p) /\ FellBack(q)
    /\ calls[p].input = GitC /\ calls[q].input = GitC
    /\ calls[p].admitted /\ ~calls[q].admitted
    /\ Len(calls[q].result.suggestions) = MaxSuggestions
    /\ calls[p].result.suggestions = calls[q].result.suggestions

Moved(p) == calls'[p].pc # calls[p].pc

(* A step of an immediate call touches neither the token nor any other     *)
(* call, and never enters the debounce stages.                             *)
ImmediateLeavesToken ==
  \A p \in Calls :
    (Moved(p) /\ calls'[p].kind = "immediate") =>
      /\ pending_request' = pending_request
      /\ token_writes' = token_writes
      /\ calls'[p].pc \in {"rl", "fetch", "done"}
      /\ \A q \in Calls \ {p} : calls'[q] = calls[q]

(* What a call of either kind does once it stands before the limiter or    *)
(* waits for the remote answer: a relation on the cache, the limiter, the  *)
(* clock and the input in which the kind of the call does not occur.       *)
AfterDebounce(p) ==
  LET r == allow_request(timestamps, config.max_requests_per_minute, now)
      x == calls[p].input
      fallen == IF config.use_fallback
                  THEN {Ok(get_fallback_suggestions(x), FALSE, TRUE)}
                  ELSE {}
  IN  /\ calls[p].pc = "rl" =>
           /\ timestamps' = r.timestamps /\ cache' = cache
           /\ IF r.ok
                THEN calls'[p].pc = "fetch"
                ELSE /\ calls'[p].pc = "done"
                     /\ calls'[p].result \in fallen \cup {Err("RateLimited")}
                     /\ calls'[p].result.ok = config.use_fallback
      /\ calls[p].pc = "fetch" =>
           /\ timestamps' = timestamps /\ calls'[p].pc = "done"
           /\ \/ /\ cache' = cache
                 /\ calls'[p].result \in fallen \cup {Err(e) : e \in FetchErrors}
                 /\ calls'[p].result.ok = config.use_fallback
              \/ \E l \in RemoteLists,
                    victims \in Victims(cache, config.max_cache_entries, now) :
                   /\ config.client
                   /\ cache' = add_to_cache(cache, x, l, now, victims)
                   /\ calls'[p].result = Ok(l, FALSE, FALSE)

SameAfterDebounce ==
  \A p \in Calls :
    (Moved(p) /\ calls[p].pc \in {"rl", "fetch"}) => AfterDebounce(p)

(* An immediate call that missed the cache went to the limiter at once.    *)
ImmediateNeverSuperseded ==
  \A p \in Calls :
    (/\ calls[p].kind = "immediate" /\ calls[p].pc # "idle"
     /\ config.enabled /\ ~Blank(calls[p].input)
     /\ ~(calls[p].pc = "done" /\ calls[p].result.ok
            /\ calls[p].result.from_cache))
      => calls[p].reached

(* C16: get_suggestions_immediate is get_suggestions without the debounce: *)
(* from the limiter on, a call of either kind changes the cache and the    *)
(* limiter and forms its result by the same rule; an immediate call goes   *)
(* from the cache miss straight to the limiter, never reads or writes the  *)
(* pending token, so it never returns the superseded result and never      *)
(* supersedes a waiting debounced call.                                    *)
ImmediateIsUndebounced ==
  /\ []ImmediateNeverSuperseded
  /\ [][ImmediateLeavesToken /\ SameAfterDebounce]_vars

(* An immediate call q was issued after the debounced call p and stored    *)
(* its list before p's delay had elapsed; p then found its token intact    *)
(* and went on to its own remote call.                                     *)
ImmediateIsUndebouncedWitness ==
  \E p \in Calls, q \in Calls :
    /\ p < q
    /\ calls[p].kind = "debounced" /\ calls[q].kind = "immediate"
    /\ calls[p].input # calls[q].input
    /\ FetchSucceeded(q) /\ calls[q].wrote_at < calls[p].wake_at
    /\ token_writes = <<p>>
    /\ calls[p].pc = "done" /\ calls[p].reached /\ calls[p].remote = 1
    /\ ~calls[p].overtaken

(* C17: remaining_requests() is max_requests_per_minute minus the number   *)
(* of admitted attempts whose timestamps lie within the trailing window at *)
(* the time of the call, hence positive whenever the next allow_request()  *)
(* would be admitted.                                                      *)
RemainingRequestsInWindow ==
  /\ remaining_requests(timestamps, MaxReq)
       = MaxReq - Cardinality(AdmittedWithin(now))
  /\ allow_request(timestamps, MaxReq, now).ok
       => remaining_requests(timestamps, MaxReq) > 0

(* clear_cache() is the only direct operation of the scenarios. *)
Cleared == ops' = ops + 1

(* C18: clear_cache() removes every entry: right after it cache_size() is  *)
(* 0 and get_from_cache misses for every key, while the limiter's          *)
(* timestamps and the pending token are unchanged.                         *)
ClearCacheEmpties ==
  [][Cleared =>
       /\ cache_size(cache') = 0
       /\ \A key \in ScenarioInputs \cup DOMAIN cache :
            get_from_cache(cache', key, now') = None
       /\ timestamps' = timestamps
       /\ pending_request' = pending_request
       /\ calls' = calls]_vars

(* q's entry was cleared while live: the later call p with the same input  *)
(* missed the cache within q's TTL.                                        *)
ClearCacheEmptiesWitness ==
  \E p \in Calls, q \in Calls :
    /\ ops = 1 /\ cache = EmptyCache
    /\ FetchSucceeded(q) /\ now < calls[q].wrote_at + config.cache_ttl
    /\ q < p /\ calls[p].input = calls[q].input /\ calls[p].reached
    /\ timestamps # << >> /\ pending_request.some

(* C19: every result returned by get_suggestions or                        *)
(* get_suggestions_immediate, on every path (fresh remote, cache hit,      *)
(* fallback, superseded, empty input), carries at most 5 suggestions.      *)
AtMostFiveSuggestions ==
  \A p \in Calls :
    (calls[p].pc = "done" /\ calls[p].result.ok)
      => Len(calls[p].result.suggestions) <= 5

(* A six-line remote answer and the more than five fallback completions of *)
(* "Git " were both cut to five.                                           *)
AtMostFiveSuggestionsWitness ==
  \E p \in Calls, q \in Calls :
    /\ FetchSucceeded(p) /\ Len(calls[p].result.suggestions) = 5
    /\ FellBack(q) /\ calls[q].input = <<"G", "i", "t", " ">>
    /\ Len(calls[q].result.suggestions) = 5

RefusedNow ==
  /\ Len(allow_log') = Len(allow_log) + 1
  /\ ~allow_log'[Len(allow_log')].ok

WithinMaxRequests == Len(timestamps) <= MaxReq

(* C20: whenever allow_request() returns false the stored timestamp        *)
(* sequence after the call equals the sequence before it (nothing          *)
(* recorded, nothing pruned), and in every reachable state the sequence    *)
(* has length <= max_requests.                                             *)
DeniedLeavesLimiter ==
  /\ []WithinMaxRequests
  /\ [][RefusedNow => timestamps' = timestamps]_vars

(* The last call was refused by a full window, after an earlier admission  *)
(* had been pruned.                                                        *)
DeniedLeavesLimiterWitness ==
  /\ MaxReq >= 1
  /\ allow_log # << >> /\ ~allow_log[Len(allow_log)].ok
  /\ Len(timestamps) = MaxReq
  /\ \E i \in DOMAIN allow_log :
       allow_log[i].ok /\ \A j \in DOMAIN timestamps :
                            timestamps[j] - allow_log[i].at >= Window

(* The call is parked in sleep(debounce) or in the remote call's await. *)
Suspended(p) == InDelay(p) \/ calls[p].pc = "fetch"

Resting(p) == Suspended(p) \/ calls[p].pc \in {"idle", "done"}

WantsLock(q) ==
  /\ NeededLock(q) # "none" /\ calls[q].holds = {}
  /\ calls[q].pc = "sleep" => now >= calls[q].wake_at

(* C21: in every reachable state a call suspended in the debounce delay or *)
(* awaiting the remote response holds none of the cache, rate-limiter and  *)
(* pending-token locks (no lock is held by two calls, none by a call that  *)
(* has not begun or has returned), so that a call about to lock a mutex    *)
(* while all other calls are suspended can lock it.                        *)
NoLockAcrossSuspension ==
  /\ \A p \in Calls : Resting(p) => calls[p].holds = {}
  /\ \A p \in Calls, q \in Calls :
       p # q => calls[p].holds \cap calls[q].holds = {}
  /\ \A q \in Calls :
       (WantsLock(q) /\ \A p \in Calls \ {q} : Resting(p)) => ENABLED Lock(q)

(* While p awaits the remote answer, the later debounced call q has locked *)
(* the token twice and the limiter once, was refused and has returned.     *)
NoLockAcrossSuspensionWitness ==
  \E p \in Calls, q \in Calls :
    /\ p < q
    /\ calls[p].pc = "fetch"
    /\ calls[q].pc = "done" /\ calls[q].kind = "debounced"
    /\ calls[q].reached /\ ~calls[q].admitted
    /\ \E r \in Calls : Suspended(r)

EntriesFromRemote ==
  \A key \in DOMAIN cache :
    \E q \in Calls :
      /\ calls[q].cache_writes >= 1 /\ calls[q].input = key
      /\ calls[q].result = Ok(cache[key].suggestions, FALSE, FALSE)

(* The cache changes only by clear_cache() or on the step on which a       *)
(* remote call succeeds, and that step writes the caller's key alone.      *)
WritesOnlyOnSuccess ==
  cache' # cache =>
    \/ Cleared
    \/ \E p \in Calls :
         /\ FetchReturns(p)
         /\ \A key \in DOMAIN cache' :
              \/ key = calls[p].input
              \/ key \in DOMAIN cache /\ cache'[key] = cache[key]

(* C22: every cache entry maps a key to the list returned by a successful  *)
(* remote fetch issued for exactly that input; fallback, superseded,       *)
(* rate-limited and failed calls never create or overwrite an entry.       *)
CacheOnlyFromRemote ==
  []EntriesFromRemote /\ [][WritesOnlyOnSuccess]_vars

CacheOnlyFromRemoteWitness ==
  \E p \in Calls, q \in Calls :
    /\ FetchSucceeded(q) /\ DOMAIN cache = {calls[q].input}
    /\ FellBack(p) /\ calls[p].admitted /\ calls[p].remote = 1
    /\ calls[p].input # calls[q].input
    /\ calls[p].result.suggestions # << >>

RemoteCallsAdmittedWithin(T) ==
  {p \in Calls :
     /\ calls[p].remote >= 1
     /\ calls[p].admitted_at <= T /\ T - calls[p].admitted_at < Window}

RemoteOnlyWhenAdmitted ==
  \A p \in Calls :
    calls'[p].remote > calls[p].remote =>
      /\ calls[p].pc = "rl" /\ calls[p].remote = 0
      /\ Len(allow_log') = Len(allow_log) + 1
      /\ allow_log'[Len(allow_log')] = [at |-> now, ok |-> TRUE]

RemoteCallsCapped ==
  /\ \A p \in Calls :
       calls[p].remote <= 1 /\ (calls[p].remote = 1 => calls[p].admitted)
  /\ \A T \in 0..now : Cardinality(RemoteCallsAdmittedWithin(T)) <= MaxReq

(* C23: under any interleaving of get_suggestions and                      *)
(* get_suggestions_immediate calls each call issues at most one remote     *)
(* call, and only after its own allow_request() returned true, so the      *)
(* number of remote calls admitted within any trailing 60-second window    *)
(* never exceeds max_requests_per_minute.                                  *)
RemoteCallsWithinLimit ==
  []RemoteCallsCapped /\ [][RemoteOnlyWhenAdmitted]_vars

(* Two remote calls, the second admitted once the first had left the       *)
(* window and while the first was still awaiting its answer.               *)
RemoteCallsWithinLimitWitness ==
  \E p \in Calls, q \in Calls :
    /\ calls[p].remote = 1 /\ calls[q].remote = 1
    /\ calls[q].admitted_at - calls[p].admitted_at >= Window
    /\ calls[p].pc = "fetch" /\ calls[q].kind = "debounced"
    /\ Len(timestamps) = MaxReq

Running(p) == calls[p].pc \notin {"idle", "done"}

(* C24: every get_suggestions call eventually returns provided the remote  *)
(* client eventually returns; whatever the remote service does, a call     *)
(* waits on no other call: it returns or is left awaiting its own remote   *)
(* answer, which a superseded, rate-limited or cache-hit call never does.  *)
EveryCallReturns ==
  /\ \A p \in Calls : Running(p) ~> calls[p].pc \in {"done", "fetch"}
  /\ (\A p \in Calls : WF_vars(RemoteReturns(p)))
       => \A p \in Calls : Running(p) ~> calls[p].pc = "done"
  /\ [](\A p \in Calls :
          (calls[p].pc = "done" /\ (~calls[p].admitted \/ ~calls[p].reached))
            => calls[p].remote = 0)

(* All calls have returned, one of them superseded, after the clock ran    *)
(* past the horizon to end a delay.                                        *)
EveryCallReturnsWitness ==
  /\ \A p \in Calls : calls[p].pc = "done"
  /\ \E p \in Calls :
       /\ calls[p].kind = "debounced" /\ Wrote(p) /\ ~calls[p].reached
       /\ calls[p].result = EmptyResult
  /\ \E q \in Calls : calls[q].remote = 1
  /\ now > MaxEngineTime

Handled == Len(result_rx)

(* The result sent for an engine error. *)
ErrorEmittedEmpty ==
  \A e \in RemoteErrors \cup {"ApiError"} :
    Emit(Err(e)) = [ok |-> TRUE, suggestions |-> << >>,
                    from_cache |-> FALSE, is_fallback |-> FALSE]

(* Result i answers input i: it is what call i, made on input i, returned. *)
ResultsInInputOrder ==
  /\ Handled = worker.received - (IF worker.pc = "call" THEN 1 ELSE 0)
  /\ worker.received + Len(input_rx) = Len(sent)
  /\ \A i \in 1..Handled :
       /\ calls[i].pc = "done"
       /\ calls[i].input = sent[i]
       /\ result_rx[i] = Emit(calls[i].result)
       /\ ~calls[i].result.ok => result_rx[i] = EmptyResult
  /\ \A i \in Calls : i > worker.received => calls[i].pc = "idle"
  /\ \A i \in Calls : calls[i].pc # "idle" => calls[i].input = sent[i]

CallsNeverOverlap ==
  \A p \in Calls, q \in Calls : (Running(p) /\ Running(q)) => p = q

NeverSuperseded ==
  \A x \in Calls :
    /\ ~calls[x].overtaken
    /\ \A y \in Calls : ~Supersedes(y, x)
    /\ (Wrote(x) /\ calls[x].pc # "sleep") => calls[x].reached

(* C25: the worker of create_suggestion_channel handles its inputs one at  *)
(* a time: with the result receiver open and drained it sends exactly one  *)
(* result per input received, in input order, an engine error as an empty  *)
(* non-cached non-fallback result; its get_suggestions calls never         *)
(* overlap, so none of them is superseded.                                 *)
WorkerOneAtATime ==
  /\ ErrorEmittedEmpty
  /\ ResultsInInputOrder
  /\ CallsNeverOverlap
  /\ NeverSuperseded

(* Two different inputs are both answered, in input order, each by a call  *)
(* that passed the comparison after its delay, the second call writing the *)
(* token at the very tick the first call's delay ended.                    *)
WorkerOneAtATimeWitness ==
  /\ Handled = NumCalls /\ worker.pc = "recv"
  /\ sent[1] # sent[2]
  /\ \A i \in 1..2 : Wrote(i) /\ calls[i].reached
  /\ WriteTime(2) = calls[1].wake_at
  /\ result_rx[1] # result_rx[2]
  /\ result_rx[1].suggestions # << >>

=============================================================================
